---- MODULE Spec2Model ----
(***************************************************************************)
(* Model of redis_model.Model (src/redis_model/redis_model.py): entities   *)
(* persisted in a Redis store with application-level unique properties.    *)
(*                                                                         *)
(* The modelled type is the one of the specification's scenario:           *)
(*     class User(Model): email = Property(unique=True)                    *)
(*                        nickname = Property()                            *)
(* Each client is one process holding one entity object.  One action is    *)
(* one round trip to the store together with the local computation that    *)
(* follows it; the commands buffered between multi() and execute() are     *)
(* local to the client and are applied atomically by the execute action.   *)
(*                                                                         *)
(* Redis keeps text: an id is stored as its decimal text and the key of an *)
(* id is formatted from that text, so the integer n and the text of n name *)
(* the same keys; the model writes both as the number n.                   *)
(***************************************************************************)
EXTENDS Integers, FiniteSets, Sequences, TLC

\* ------------------------------------------------------------------ bounds
NumClients == 2
MaxCalls == 4

\* the processes; Spec lets two of them (Writers) make MaxCalls calls in all,
\* SpecRace lets each of them make one call
Clients == 1..NumClients
Writers == {1, 2}
Ids == 1..MaxCalls

\* ------------------------------------------------------- values and types
None == "None"
NoId == 0
Emails == {"a@x.com", "b@x.com"}
Nicknames == {"bob"}
\* the email of the entity client c has stored before a race of mixed writers
OldEmail(c) == "u" \o ToString(c) \o "@x.com"
OldEmails == {OldEmail(c) : c \in Clients}
PropNames == {"email", "nickname"}
\* cls.__dict__ of User: the declared properties and the attributes that
\* Model.Config sets on the class
ClassDict == PropNames \cup {"_model_name"}
\* names a caller may pass to get(name=value)
FilterNames == ClassDict \cup {"age"}

\* Property(unique=...) of each declared property of User
unique(p) == p = "email"

\* ------------------------------------------------------------------- keys
\* '{0}:mid'
MidKey == [kind |-> "mid", id |-> NoId, prop |-> None, val |-> None]
\* '{0}:{1}'.format(model_name, model_id)
DataKey(i) == [kind |-> "data", id |-> i, prop |-> None, val |-> None]
\* data_key + ':rks'
RksKey(i) == [kind |-> "rks", id |-> i, prop |-> None, val |-> None]
\* '{0}:{1}:{2}'.format(model_name, k, v)
PropKey(p, v) == [kind |-> "prop", id |-> NoId, prop |-> p, val |-> v]
\* k.split(':')[1]
KeyPropName(k) == k.prop

PropKeys == {PropKey(p, v) : p \in ClassDict, v \in Emails \cup OldEmails \cup Nicknames}

\* ----------------------------------------------------------- serialization
\* json.dumps of a dict with string keys and scalar values: the text is
\* modelled as its set of name/value members; the absent key is NoData.
NoData == {}
dumps(m) == {<<k, m[k]>> : k \in DOMAIN m}
loads(t) == [k \in {p[1] : p \in t} |-> (CHOOSE p \in t : p[1] = k)[2]]

\* ------------------------------------------------------------------ state
VARIABLES
    db,         \* the store: mid (counter), data, rks, props (key -> id)
    obj,        \* per client: the entity object (_model_id and attributes)
    pc,         \* per client: the position inside put()/delete()/get()
    loc,        \* per client: the locals model_id and rks of the running call
    watching,   \* per client: the keys WATCHed on the client's connection
    dirty,      \* per client: a WATCHed key was modified since the WATCH
    result,     \* per client: the running/last call and its outcome
    calls,      \* number of put()/delete()/get() calls started so far
    debug_mode, \* Model.Config(debug_mode=...) of the type
    inserted    \* history: the ids successful inserts were bound to

vars == <<db, obj, pc, loc, watching, dirty, result, calls, debug_mode, inserted>>

EmptyDb ==
    [mid   |-> 0,
     data  |-> [i \in Ids |-> NoData],
     rks   |-> [i \in Ids |-> {}],
     props |-> [k \in PropKeys |-> NoId]]

\* ------------------------------------------------------- store primitives
\* faulty variant: the test never finds the key
exists_never(s, k) == FALSE
\* EXISTS key (for the keys the model asks about: property keys)
exists(s, k) == s.props[k] # NoId
\* GET of a property key: the id, or None (NoId)
get_prop(s, k) == s.props[k]
\* SMEMBERS of a reverse key set (empty when the key is absent)
smembers(s, i) == s.rks[i]

\* Buffered commands
SET(k, v) == [cmd |-> "SET", key |-> k, keys |-> {}, id |-> v, text |-> NoData]
SETDATA(k, t) == [cmd |-> "SET", key |-> k, keys |-> {}, id |-> NoId, text |-> t]
DEL(ks) == [cmd |-> "DEL", key |-> MidKey, keys |-> ks, id |-> NoId, text |-> NoData]
SADD(k, ms) == [cmd |-> "SADD", key |-> k, keys |-> ms, id |-> NoId, text |-> NoData]

\* DEL and SADD need at least one key / member: the server rejects the
\* command when it is queued.
ArityError(c) == c.cmd \in {"DEL", "SADD"} /\ c.keys = {}

KeyExists(s, k) ==
    CASE k.kind = "mid"  -> s.mid # 0
      [] k.kind = "data" -> s.data[k.id] # NoData
      [] k.kind = "rks"  -> s.rks[k.id] # {}
      [] k.kind = "prop" -> s.props[k] # NoId

DelKey(s, k) ==
    CASE k.kind = "mid"  -> [s EXCEPT !.mid = 0]
      [] k.kind = "data" -> [s EXCEPT !.data[k.id] = NoData]
      [] k.kind = "rks"  -> [s EXCEPT !.rks[k.id] = {}]
      [] k.kind = "prop" -> [s EXCEPT !.props[k] = NoId]

RECURSIVE DelKeys(_, _)
DelKeys(s, ks) ==
    IF ks = {} THEN s
    ELSE LET k == CHOOSE x \in ks : TRUE
         IN  DelKeys(DelKey(s, k), ks \ {k})

\* The store after one command
ApplyCmd(s, c) ==
    CASE ArityError(c) -> s
      [] c.cmd = "DEL" -> DelKeys(s, c.keys)
      [] c.cmd = "SADD" -> [s EXCEPT !.rks[c.key.id] = @ \cup c.keys]
      [] c.cmd = "SET" /\ c.key.kind = "prop" -> [s EXCEPT !.props[c.key] = c.id]
      [] c.cmd = "SET" /\ c.key.kind = "data" -> [s EXCEPT !.data[c.key.id] = c.text]

\* The reply of one command: DEL the number of keys removed, SADD the
\* number of members added, SET true (1)
Reply(s, c) ==
    CASE ArityError(c) -> 0
      [] c.cmd = "DEL" -> Cardinality({k \in c.keys : KeyExists(s, k)})
      [] c.cmd = "SADD" -> Cardinality(c.keys \ s.rks[c.key.id])
      [] c.cmd = "SET" -> 1

\* The keys one command modifies (what WATCH sees): SET always, DEL the keys
\* it removed, SADD the set when a member was added
Touched(s, c) ==
    CASE ArityError(c) -> {}
      [] c.cmd = "DEL" -> {k \in c.keys : KeyExists(s, k)}
      [] c.cmd = "SADD" -> IF c.keys \subseteq s.rks[c.key.id] THEN {} ELSE {c.key}
      [] c.cmd = "SET" -> {c.key}

RECURSIVE ApplyAll(_, _)
ApplyAll(s, cmds) ==
    IF cmds = <<>> THEN s ELSE ApplyAll(ApplyCmd(s, Head(cmds)), Tail(cmds))

RECURSIVE Replies(_, _)
Replies(s, cmds) ==
    IF cmds = <<>> THEN <<>>
    ELSE <<Reply(s, Head(cmds))>> \o Replies(ApplyCmd(s, Head(cmds)), Tail(cmds))

RECURSIVE TouchedAll(_, _)
TouchedAll(s, cmds) ==
    IF cmds = <<>> THEN {}
    ELSE Touched(s, Head(cmds)) \cup TouchedAll(ApplyCmd(s, Head(cmds)), Tail(cmds))

\* all(results)
all(rs) == \A i \in 1..Len(rs) : rs[i] # 0

\* ----------------------------------------------------- property extraction
\* _get_static_props: (name, value) of each declared property; an attribute
\* that was never assigned has the descriptor's default, None
static_props(o) == [p \in PropNames |-> o[p]]

\* json_data built by _insert/_update from the static properties
json_data(o) == static_props(o)

\* a unique property whose value is None: ValueError
HasNoneUnique(o) == \E p \in PropNames : unique(p) /\ static_props(o)[p] = None

\* unique_prop_keys built by _insert/_update
unique_prop_keys(o) == {PropKey(p, static_props(o)[p]) : p \in {q \in PropNames : unique(q)}}

\* the first key of unique_prop_keys that exists in the store
ExistingKey(s, ks) == CHOOSE k \in ks : exists(s, k)

\* ------------------------------------------------------------ call records
\* The record of a call: the operation, its outcome ("running" until it
\* returns), the property an exception names, and what the call has done so
\* far: mid0 the counter when it began, allocs the ids it allocated, watches
\* the WATCH commands it sent.
Idle(op, outcome, prop, r) ==
    [op |-> op, outcome |-> outcome, prop |-> prop,
     mid0 |-> r.mid0, allocs |-> r.allocs, watches |-> r.watches]

Started(op) ==
    [op |-> op, outcome |-> "running", prop |-> None,
     mid0 |-> db.mid, allocs |-> 0, watches |-> 0]

NoLoc == [model_id |-> NoId, rks |-> {}]

\* the locals of a call end with it
Locals(c) == loc' = [loc EXCEPT ![c] = IF pc'[c] = "idle" THEN NoLoc ELSE @]

\* faulty variant: the reset() forgets the watched keys but not the conflict
UnwatchKeepsConflict(c) ==
    /\ watching' = [watching EXCEPT ![c] = {}]
    /\ dirty' = dirty
\* the reset() of the pipeline on leaving execute() or the with block
Unwatch(c) ==
    /\ watching' = [watching EXCEPT ![c] = {}]
    /\ dirty' = [dirty EXCEPT ![c] = FALSE]

\* WATCH keys; the count of a call's WATCHes stops at MaxCalls (each retry
\* follows the commit of another call)
Watch(c, ks) ==
    /\ watching' = [watching EXCEPT ![c] = @ \cup ks]
    /\ dirty' = dirty
    /\ result' = [result EXCEPT ![c].watches = IF @ < MaxCalls THEN @ + 1 ELSE @]

\* a committed transaction marks every other client that watches a key it
\* modified; the committing client's own watches are dropped
Commit(c, cmds) ==
    /\ db' = ApplyAll(db, cmds)
    /\ watching' = [watching EXCEPT ![c] = {}]
    /\ dirty' = [d \in Clients |->
                    IF d = c THEN FALSE
                    ELSE dirty[d] \/ (watching[d] \cap TouchedAll(db, cmds) # {})]

\* ------------------------------------------------------------------- Init
Init ==
    /\ db = EmptyDb
    /\ obj = [c \in Clients |-> [id |-> NoId, email |-> None, nickname |-> None]]
    /\ pc = [c \in Clients |-> "idle"]
    /\ loc = [c \in Clients |-> NoLoc]
    /\ watching = [c \in Clients |-> {}]
    /\ dirty = [c \in Clients |-> FALSE]
    /\ result = [c \in Clients |-> Started("none")]
    /\ calls = 0
    /\ debug_mode \in BOOLEAN
    /\ inserted = {}

\* cls(): a new object, _model_id None
New(c) ==
    /\ pc[c] = "idle"
    /\ obj[c].id # NoId
    /\ obj' = [obj EXCEPT ![c] = [id |-> NoId, email |-> None, nickname |-> None]]
    /\ UNCHANGED <<db, pc, loc, watching, dirty, result, calls, debug_mode, inserted>>

\* [pipe.set(k, model_id) for k in unique_prop_keys]
RECURSIVE SetAll(_, _)
SetAll(ks, i) ==
    IF ks = {} THEN <<>>
    ELSE LET k == CHOOSE x \in ks : TRUE
         IN  <<SET(k, i)>> \o SetAll(ks \ {k}, i)

\* ----------------------------------------------------------------- insert
\* faulty variant: the counter is read, not incremented
incr_skipped(s) == s
\* faulty variant: the next id is counted from the stored entities
incr_count(s) == [s EXCEPT !.mid = Cardinality({i \in Ids : s.data[i] # NoData}) + 1]
\* INCR '{0}:mid'
incr(s) == [s EXCEPT !.mid = @ + 1]

\* put() on an object without id, with attributes e and n: _insert up to the
\* allocation of the id
PutInsert(c, e, n) ==
    /\ pc[c] = "idle"
    /\ calls < MaxCalls
    /\ obj[c].id = NoId
    /\ calls' = calls + 1
    /\ obj' = [obj EXCEPT ![c].email = e, ![c].nickname = n]
    /\ IF HasNoneUnique(obj'[c])
       THEN /\ result' = [result EXCEPT ![c] = Idle("insert", "ValueError", None, Started("insert"))]
            /\ UNCHANGED <<db, pc, loc>>
       ELSE /\ db' = incr(db)
            /\ loc' = [loc EXCEPT ![c] = [model_id |-> db'.mid, rks |-> {}]]
            /\ pc' = [pc EXCEPT ![c] = "ins_precheck"]
            /\ result' = [result EXCEPT ![c] = [Started("insert") EXCEPT !.allocs = 1]]
    /\ UNCHANGED <<watching, dirty, debug_mode, inserted>>

\* test for uniqueness: db.exists(k) for k in unique_prop_keys
InsertPrecheck(c) ==
    /\ pc[c] = "ins_precheck"
    /\ LET ks == unique_prop_keys(obj[c])
       IN  IF \E k \in ks : exists(db, k)
           THEN /\ pc' = [pc EXCEPT ![c] = "idle"]
                /\ result' = [result EXCEPT ![c] =
                      Idle("insert", "UniquePropertyException",
                           KeyPropName(ExistingKey(db, ks)), @)]
           ELSE /\ pc' = [pc EXCEPT ![c] = "ins_watch"]
                /\ result' = result
    /\ Locals(c)
    /\ UNCHANGED <<db, obj, watching, dirty, calls, debug_mode, inserted>>

\* faulty variant: the insert watches nothing
InsertWatchKeysNone(o) == {}
\* the keys _insert watches
InsertWatchKeys(o) == unique_prop_keys(o)

\* pipe.watch(*unique_prop_keys)
InsertWatch(c) ==
    /\ pc[c] = "ins_watch"
    /\ Watch(c, InsertWatchKeys(obj[c]))
    /\ pc' = [pc EXCEPT ![c] = "ins_recheck"]
    /\ UNCHANGED <<db, obj, loc, calls, debug_mode, inserted>>

\* test for uniqueness again: pipe.exists(k)
InsertRecheck(c) ==
    /\ pc[c] = "ins_recheck"
    /\ LET ks == unique_prop_keys(obj[c])
       IN  IF \E k \in ks : exists(db, k)
           THEN /\ pc' = [pc EXCEPT ![c] = "idle"]
                /\ result' = [result EXCEPT ![c] =
                      Idle("insert", "UniquePropertyException",
                           KeyPropName(ExistingKey(db, ks)), @)]
                /\ Unwatch(c)
           ELSE /\ pc' = [pc EXCEPT ![c] = "ins_execute"]
                /\ UNCHANGED <<result, watching, dirty>>
    /\ Locals(c)
    /\ UNCHANGED <<db, obj, calls, debug_mode, inserted>>

\* the commands _insert buffers between multi() and execute()
InsertCommands(ks, i, text) ==
    SetAll(ks, i) \o <<SETDATA(DataKey(i), text), SADD(RksKey(i), ks)>>

\* pipe.execute() succeeds: the id is bound to the object
InsertExecute(c) ==
    /\ pc[c] = "ins_execute"
    /\ ~dirty[c]
    /\ Commit(c, InsertCommands(unique_prop_keys(obj[c]), loc[c].model_id,
                                dumps(json_data(obj[c]))))
    /\ obj' = [obj EXCEPT ![c].id = loc[c].model_id]
    /\ pc' = [pc EXCEPT ![c] = "idle"]
    /\ result' = [result EXCEPT ![c] = Idle("insert", "ok", None, @)]
    /\ inserted' = inserted \cup {loc[c].model_id}
    /\ Locals(c)
    /\ UNCHANGED <<calls, debug_mode>>

\* faulty variant: the retry allocates a new id
InsertWatchErrorAllocates(c) ==
    /\ pc[c] = "ins_execute"
    /\ dirty[c]
    /\ Unwatch(c)
    /\ db' = incr(db)
    /\ loc' = [loc EXCEPT ![c].model_id = db'.mid]
    /\ result' = [result EXCEPT ![c].allocs = @ + 1]
    /\ pc' = [pc EXCEPT ![c] = "ins_watch"]
    /\ UNCHANGED <<obj, calls, debug_mode, inserted>>
\* pipe.execute() raises WatchError: continue
InsertWatchError(c) ==
    /\ pc[c] = "ins_execute"
    /\ dirty[c]
    /\ Unwatch(c)
    /\ pc' = [pc EXCEPT ![c] = "ins_watch"]
    /\ UNCHANGED <<db, obj, loc, result, calls, debug_mode, inserted>>

\* ----------------------------------------------------------------- update
\* put() on an object with an id, with attributes e and n: _update up to
\* the retry loop
PutUpdate(c, e, n) ==
    /\ pc[c] = "idle"
    /\ calls < MaxCalls
    /\ obj[c].id # NoId
    /\ calls' = calls + 1
    /\ obj' = [obj EXCEPT ![c].email = e, ![c].nickname = n]
    /\ IF HasNoneUnique(obj'[c])
       THEN /\ result' = [result EXCEPT ![c] = Idle("update", "ValueError", None, Started("update"))]
            /\ UNCHANGED <<pc, loc>>
       ELSE /\ loc' = [loc EXCEPT ![c] = [model_id |-> obj[c].id, rks |-> {}]]
            /\ pc' = [pc EXCEPT ![c] = "upd_watch"]
            /\ result' = [result EXCEPT ![c] = Started("update")]
    /\ UNCHANGED <<db, watching, dirty, debug_mode, inserted>>

\* faulty variant: only the reverse key set is watched
UpdateWatchKeysRksOnly(i, o) == {RksKey(i)}
\* the keys _update watches
UpdateWatchKeys(i, o) == {RksKey(i)} \cup unique_prop_keys(o)

\* pipe.watch(rks_key, *unique_prop_keys)
UpdateWatch(c) ==
    /\ pc[c] = "upd_watch"
    /\ Watch(c, UpdateWatchKeys(loc[c].model_id, obj[c]))
    /\ pc' = [pc EXCEPT ![c] = "upd_smembers"]
    /\ UNCHANGED <<db, obj, loc, calls, debug_mode, inserted>>

\* rks = pipe.smembers(rks_key)
UpdateSmembers(c) ==
    /\ pc[c] = "upd_smembers"
    /\ loc' = [loc EXCEPT ![c].rks = smembers(db, loc[c].model_id)]
    /\ pc' = [pc EXCEPT ![c] = "upd_check"]
    /\ UNCHANGED <<db, obj, watching, dirty, result, calls, debug_mode, inserted>>

\* faulty variant: no key is tested for existence
UpdateTestKeysNone(ks, rks) == {}
\* the keys _update tests for existence: only the new ones
UpdateTestKeys(ks, rks) == {k \in ks : k \notin rks}

\* test for uniqueness: k not in rks and pipe.exists(k)
UpdateCheck(c) ==
    /\ pc[c] = "upd_check"
    /\ LET ks == UpdateTestKeys(unique_prop_keys(obj[c]), loc[c].rks)
       IN  IF \E k \in ks : exists(db, k)
           THEN /\ pc' = [pc EXCEPT ![c] = "idle"]
                /\ result' = [result EXCEPT ![c] =
                      Idle("update", "UniquePropertyException",
                           KeyPropName(ExistingKey(db, ks)), @)]
                /\ Unwatch(c)
           ELSE /\ pc' = [pc EXCEPT ![c] = "upd_execute"]
                /\ UNCHANGED <<result, watching, dirty>>
    /\ Locals(c)
    /\ UNCHANGED <<db, obj, calls, debug_mode, inserted>>

\* faulty variant: the old unique keys are not deleted
UpdateCommandsKeepOld(rks, ks, i, text) ==
    SetAll(ks, i) \o <<SETDATA(DataKey(i), text), SADD(RksKey(i), ks)>>
\* the commands _update buffers between multi() and execute()
UpdateCommands(rks, ks, i, text) ==
    <<DEL(rks)>> \o SetAll(ks, i) \o <<SETDATA(DataKey(i), text), SADD(RksKey(i), ks)>>

UpdateBuffer(c) ==
    UpdateCommands(loc[c].rks, unique_prop_keys(obj[c]), loc[c].model_id,
                   dumps(json_data(obj[c])))

Rejected(cmds) == \E j \in 1..Len(cmds) : ArityError(cmds[j])

\* pipe.execute() succeeds
UpdateExecute(c) ==
    /\ pc[c] = "upd_execute"
    /\ ~Rejected(UpdateBuffer(c))
    /\ ~dirty[c]
    /\ Commit(c, UpdateBuffer(c))
    /\ pc' = [pc EXCEPT ![c] = "idle"]
    /\ result' = [result EXCEPT ![c] = Idle("update", "ok", None, @)]
    /\ Locals(c)
    /\ UNCHANGED <<obj, calls, debug_mode, inserted>>

\* pipe.execute() raises WatchError: continue
UpdateWatchError(c) ==
    /\ pc[c] = "upd_execute"
    /\ ~Rejected(UpdateBuffer(c))
    /\ dirty[c]
    /\ Unwatch(c)
    /\ pc' = [pc EXCEPT ![c] = "upd_watch"]
    /\ UNCHANGED <<db, obj, loc, result, calls, debug_mode, inserted>>

\* pipe.delete(*rks) with an empty rks is a DEL without keys, which the
\* server rejects when it is queued.  A server that aborts such a transaction
\* (EXECABORT) applies nothing; an older server answers EXEC as usual: nil
\* when a watched key was modified (WatchError), else it runs the commands it
\* accepted.  In both cases execute() raises the server's error reply.
UpdateRejected(c, aborts) ==
    /\ pc[c] = "upd_execute"
    /\ Rejected(UpdateBuffer(c))
    /\ IF aborts
       THEN /\ Unwatch(c)
            /\ db' = db
            /\ pc' = [pc EXCEPT ![c] = "idle"]
            /\ result' = [result EXCEPT ![c] = Idle("update", "ResponseError", None, @)]
       ELSE IF dirty[c]
       THEN /\ Unwatch(c)
            /\ db' = db
            /\ pc' = [pc EXCEPT ![c] = "upd_watch"]
            /\ result' = result
       ELSE /\ Commit(c, UpdateBuffer(c))
            /\ pc' = [pc EXCEPT ![c] = "idle"]
            /\ result' = [result EXCEPT ![c] = Idle("update", "ResponseError", None, @)]
    /\ Locals(c)
    /\ UNCHANGED <<obj, calls, debug_mode, inserted>>

\* ----------------------------------------------------------------- delete
\* faulty variant: the id is not tested before the loop
DeleteUnchecked(c) ==
    /\ pc[c] = "idle"
    /\ calls < MaxCalls
    /\ calls' = calls + 1
    /\ loc' = [loc EXCEPT ![c] = [model_id |-> obj[c].id, rks |-> {}]]
    /\ pc' = [pc EXCEPT ![c] = "del_watch"]
    /\ result' = [result EXCEPT ![c] = Started("delete")]
    /\ UNCHANGED <<db, obj, watching, dirty, debug_mode, inserted>>
\* delete(): up to the retry loop
Delete(c) ==
    /\ pc[c] = "idle"
    /\ calls < MaxCalls
    /\ calls' = calls + 1
    /\ IF obj[c].id = NoId
       THEN /\ result' = [result EXCEPT ![c] =
                  Idle("delete", "RuntimeError_unsaved", None, Started("delete"))]
            /\ UNCHANGED <<pc, loc>>
       ELSE /\ loc' = [loc EXCEPT ![c] = [model_id |-> obj[c].id, rks |-> {}]]
            /\ pc' = [pc EXCEPT ![c] = "del_watch"]
            /\ result' = [result EXCEPT ![c] = Started("delete")]
    /\ UNCHANGED <<db, obj, watching, dirty, debug_mode, inserted>>

\* the keys delete watches
DeleteWatchKeys(i) == {RksKey(i)}

\* pipe.watch(rks_key)
DeleteWatch(c) ==
    /\ pc[c] = "del_watch"
    /\ Watch(c, DeleteWatchKeys(loc[c].model_id))
    /\ pc' = [pc EXCEPT ![c] = "del_smembers"]
    /\ UNCHANGED <<db, obj, loc, calls, debug_mode, inserted>>

\* rks = pipe.smembers(rks_key)
DeleteSmembers(c) ==
    /\ pc[c] = "del_smembers"
    /\ loc' = [loc EXCEPT ![c].rks = smembers(db, loc[c].model_id)]
    /\ pc' = [pc EXCEPT ![c] = "del_execute"]
    /\ UNCHANGED <<db, obj, watching, dirty, result, calls, debug_mode, inserted>>

\* faulty variant: the reverse key set itself is not deleted
DeleteCommandsKeepRks(rks, i) == <<DEL(rks), DEL({DataKey(i)})>>
\* the commands delete buffers between multi() and execute()
DeleteCommands(rks, i) == <<DEL(rks), DEL({DataKey(i)}), DEL({RksKey(i)})>>

DeleteBuffer(c) == DeleteCommands(loc[c].rks, loc[c].model_id)

\* debug mode: results = pipe.execute(); not all(results) raises
DeleteFailed(debug, results) == debug /\ ~all(results)

\* pipe.execute() succeeds; in debug mode the replies are checked after it
DeleteExecute(c) ==
    /\ pc[c] = "del_execute"
    /\ ~Rejected(DeleteBuffer(c))
    /\ ~dirty[c]
    /\ Commit(c, DeleteBuffer(c))
    /\ pc' = [pc EXCEPT ![c] = "idle"]
    /\ IF DeleteFailed(debug_mode, Replies(db, DeleteBuffer(c)))
       THEN /\ result' = [result EXCEPT ![c] =
                  Idle("delete", "RuntimeError_delete_failed", None, @)]
            /\ obj' = obj
       ELSE /\ result' = [result EXCEPT ![c] = Idle("delete", "ok", None, @)]
            /\ obj' = [obj EXCEPT ![c].id = NoId]
    /\ Locals(c)
    /\ UNCHANGED <<calls, debug_mode, inserted>>

\* faulty variant: the id is cleared although the commit conflicted
DeleteWatchErrorClears(c) ==
    /\ pc[c] = "del_execute"
    /\ ~Rejected(DeleteBuffer(c))
    /\ dirty[c]
    /\ Unwatch(c)
    /\ obj' = [obj EXCEPT ![c].id = NoId]
    /\ pc' = [pc EXCEPT ![c] = "del_watch"]
    /\ UNCHANGED <<db, loc, result, calls, debug_mode, inserted>>
\* pipe.execute() raises WatchError: continue
DeleteWatchError(c) ==
    /\ pc[c] = "del_execute"
    /\ ~Rejected(DeleteBuffer(c))
    /\ dirty[c]
    /\ Unwatch(c)
    /\ pc' = [pc EXCEPT ![c] = "del_watch"]
    /\ UNCHANGED <<db, obj, loc, result, calls, debug_mode, inserted>>

\* pipe.delete(*rks) with an empty rks: as in UpdateRejected
DeleteRejected(c, aborts) ==
    /\ pc[c] = "del_execute"
    /\ Rejected(DeleteBuffer(c))
    /\ IF aborts
       THEN /\ Unwatch(c)
            /\ db' = db
            /\ pc' = [pc EXCEPT ![c] = "idle"]
            /\ result' = [result EXCEPT ![c] = Idle("delete", "ResponseError", None, @)]
       ELSE IF dirty[c]
       THEN /\ Unwatch(c)
            /\ db' = db
            /\ pc' = [pc EXCEPT ![c] = "del_watch"]
            /\ result' = result
       ELSE /\ Commit(c, DeleteBuffer(c))
            /\ pc' = [pc EXCEPT ![c] = "idle"]
            /\ result' = [result EXCEPT ![c] = Idle("delete", "ResponseError", None, @)]
    /\ Locals(c)
    /\ UNCHANGED <<obj, calls, debug_mode, inserted>>

\* -------------------------------------------------------------------- get
\* get_model_id(name=value): the id the property key holds, NoId for None
get_model_id(s, p, v) == get_prop(s, PropKey(p, v))

\* faulty variant: only the unique properties are restored
get_unique_only(s, i) ==
    [id |-> i, email |-> loads(s.data[i])["email"], nickname |-> None]
\* the object get() builds from the stored text
get(s, i) ==
    LET m == loads(s.data[i])
    IN  [id |-> i, email |-> m["email"], nickname |-> m["nickname"]]

\* get(model_id=i): db.get of the data key and the reconstruction
Get(c, i) ==
    /\ pc[c] = "idle"
    /\ calls < MaxCalls
    /\ calls' = calls + 1
    /\ IF db.data[i] = NoData
       THEN /\ result' = [result EXCEPT ![c] = Idle("get", "None", None, Started("get"))]
            /\ obj' = obj
       ELSE /\ result' = [result EXCEPT ![c] = Idle("get", "ok", None, Started("get"))]
            /\ obj' = [obj EXCEPT ![c] = get(db, i)]
    /\ UNCHANGED <<db, pc, loc, watching, dirty, debug_mode, inserted>>

\* get(name=value): get_model_id
GetBy(c, p, v) ==
    /\ pc[c] = "idle"
    /\ calls < MaxCalls
    /\ calls' = calls + 1
    /\ IF p \notin ClassDict
       THEN /\ result' = [result EXCEPT ![c] =
                  Idle("get", "RuntimeError_not_unique", p, Started("get"))]
            /\ UNCHANGED <<pc, loc>>
       ELSE IF get_model_id(db, p, v) = NoId
       THEN /\ result' = [result EXCEPT ![c] = Idle("get", "None", p, Started("get"))]
            /\ UNCHANGED <<pc, loc>>
       ELSE /\ result' = [result EXCEPT ![c] = [Started("get") EXCEPT !.prop = p]]
            /\ loc' = [loc EXCEPT ![c] = [model_id |-> get_model_id(db, p, v), rks |-> {}]]
            /\ pc' = [pc EXCEPT ![c] = "get_data"]
    /\ UNCHANGED <<db, obj, watching, dirty, debug_mode, inserted>>

\* get(name=value): db.get of the data key and the reconstruction
GetData(c) ==
    /\ pc[c] = "get_data"
    /\ pc' = [pc EXCEPT ![c] = "idle"]
    /\ IF db.data[loc[c].model_id] = NoData
       THEN /\ result' = [result EXCEPT ![c] = Idle("get", "None", @.prop, @)]
            /\ obj' = obj
       ELSE /\ result' = [result EXCEPT ![c] = Idle("get", "ok", @.prop, @)]
            /\ obj' = [obj EXCEPT ![c] = get(db, loc[c].model_id)]
    /\ Locals(c)
    /\ UNCHANGED <<db, watching, dirty, calls, debug_mode, inserted>>

\* ------------------------------------------------------------------- Next
Next ==
    \E c \in Writers :
        \/ New(c)
        \/ \E e \in Emails \cup {None}, n \in Nicknames : PutInsert(c, e, n)
        \/ InsertPrecheck(c)
        \/ InsertWatch(c)
        \/ InsertRecheck(c)
        \/ InsertExecute(c)
        \/ InsertWatchError(c)
        \/ \E e \in Emails \cup {None}, n \in Nicknames : PutUpdate(c, e, n)
        \/ UpdateWatch(c)
        \/ UpdateSmembers(c)
        \/ UpdateCheck(c)
        \/ UpdateExecute(c)
        \/ UpdateWatchError(c)
        \/ \E aborts \in BOOLEAN : UpdateRejected(c, aborts)
        \/ Delete(c)
        \/ DeleteWatch(c)
        \/ DeleteSmembers(c)
        \/ DeleteExecute(c)
        \/ DeleteWatchError(c)
        \/ \E aborts \in BOOLEAN : DeleteRejected(c, aborts)
        \/ \E i \in Ids : Get(c, i)
        \/ \E p \in FilterNames, v \in Emails : GetBy(c, p, v)
        \/ GetData(c)

Spec == Init /\ [][Next]_vars

\* ------------------------------------------------------- fair scheduling
\* the next step of the call client c is in: the body of the loop of _insert,
\* _update or delete, and the read that ends get()
CallStep(c) ==
    \/ InsertPrecheck(c)
    \/ InsertWatch(c)
    \/ InsertRecheck(c)
    \/ InsertExecute(c)
    \/ InsertWatchError(c)
    \/ UpdateWatch(c)
    \/ UpdateSmembers(c)
    \/ UpdateCheck(c)
    \/ UpdateExecute(c)
    \/ UpdateWatchError(c)
    \/ \E aborts \in BOOLEAN : UpdateRejected(c, aborts)
    \/ DeleteWatch(c)
    \/ DeleteSmembers(c)
    \/ DeleteExecute(c)
    \/ DeleteWatchError(c)
    \/ \E aborts \in BOOLEAN : DeleteRejected(c, aborts)
    \/ GetData(c)

\* one entity is stored by a put() and every client holds a copy of it
\* obtained with get(): two calls have been made
InitLive ==
    /\ \E e \in Emails, n \in Nicknames :
          LET o == [id |-> 1, email |-> e, nickname |-> n]
          IN  /\ db = ApplyAll(incr(EmptyDb),
                               InsertCommands(unique_prop_keys(o), 1, dumps(json_data(o))))
              /\ obj = [c \in Clients |-> o]
    /\ pc = [c \in Clients |-> "idle"]
    /\ loc = [c \in Clients |-> NoLoc]
    /\ watching = [c \in Clients |-> {}]
    /\ dirty = [c \in Clients |-> FALSE]
    /\ result = [c \in Clients |-> Started("none")]
    /\ calls = 2
    /\ debug_mode \in BOOLEAN
    /\ inserted = {1}

\* every client that is inside a call keeps running: the calls are
\* synchronous, and the store answers every command
SpecLive == InitLive /\ [][Next]_vars /\ \A c \in Writers : WF_vars(CallStep(c))

\* ------------------------------------------------------- racing inserts
\* N clients, each with a new object carrying the same value of the unique
\* property, each calling put() once on an empty store.
InitRace ==
    /\ db = EmptyDb
    /\ \E e \in Emails, n \in Nicknames :
          obj = [c \in Clients |-> [id |-> NoId, email |-> e, nickname |-> n]]
    /\ pc = [c \in Clients |-> "idle"]
    /\ loc = [c \in Clients |-> NoLoc]
    /\ watching = [c \in Clients |-> {}]
    /\ dirty = [c \in Clients |-> FALSE]
    /\ result = [c \in Clients |-> Started("none")]
    /\ calls = 0
    /\ debug_mode \in BOOLEAN
    /\ inserted = {}

RacePut(c) ==
    /\ result[c].op = "none"
    /\ PutInsert(c, obj[c].email, obj[c].nickname)

NextRace ==
    \E c \in Clients :
        \/ RacePut(c)
        \/ InsertPrecheck(c)
        \/ InsertWatch(c)
        \/ InsertRecheck(c)
        \/ InsertExecute(c)
        \/ InsertWatchError(c)

SpecRace == InitRace /\ [][NextRace]_vars

\* -------------------------------------------------- racing mixed writers
\* the store after clients 1..k have each inserted an entity of their own
RECURSIVE SeedDb(_, _)
SeedDb(k, n) ==
    IF k = 0 THEN EmptyDb
    ELSE LET o == [id |-> k, email |-> OldEmail(k), nickname |-> n]
         IN  ApplyAll(incr(SeedDb(k - 1, n)),
                      InsertCommands(unique_prop_keys(o), k, dumps(json_data(o))))

\* Clients 1..k hold the entity they stored, with the unique property
\* assigned the new value e; the other clients hold a new object with the
\* same value.  Each client calls put() once; calls counts the racing calls.
InitMixed ==
    /\ \E k \in 1..NumClients, e \in Emails, n \in Nicknames :
          /\ db = SeedDb(k, n)
          /\ obj = [c \in Clients |->
                       [id |-> IF c <= k THEN c ELSE NoId, email |-> e, nickname |-> n]]
          /\ inserted = 1..k
    /\ pc = [c \in Clients |-> "idle"]
    /\ loc = [c \in Clients |-> NoLoc]
    /\ watching = [c \in Clients |-> {}]
    /\ dirty = [c \in Clients |-> FALSE]
    /\ result = [c \in Clients |-> Started("none")]
    /\ calls = 0
    /\ debug_mode \in BOOLEAN

\* put(): _update when the object has an id, else _insert
MixedPut(c) ==
    /\ result[c].op = "none"
    /\ \/ PutInsert(c, obj[c].email, obj[c].nickname)
       \/ PutUpdate(c, obj[c].email, obj[c].nickname)

\* no entity is deleted in the race, so no reverse key set is read empty and
\* execute() of _update meets no rejected command
NextMixed ==
    \E c \in Clients :
        \/ MixedPut(c)
        \/ InsertPrecheck(c)
        \/ InsertWatch(c)
        \/ InsertRecheck(c)
        \/ InsertExecute(c)
        \/ InsertWatchError(c)
        \/ UpdateWatch(c)
        \/ UpdateSmembers(c)
        \/ UpdateCheck(c)
        \/ UpdateExecute(c)
        \/ UpdateWatchError(c)

SpecMixed == InitMixed /\ [][NextMixed]_vars

\* ------------------------------------------------------------ vocabulary
Stored(i) == db.data[i] # NoData
StoredEmail(i) == loads(db.data[i])["email"]
EmailKey(v) == PropKey("email", v)
Succeeded(c, op) == pc[c] = "idle" /\ result[c].op = op /\ result[c].outcome = "ok"
Violation(c) == pc[c] = "idle" /\ result[c].outcome = "UniquePropertyException"
\* client c takes a step of its call
Steps(c) == pc'[c] # pc[c]
\* client c's put() has returned success
Won(c) == Succeeded(c, "insert") \/ Succeeded(c, "update")
\* client c's execute() commits and the call returns success
Commits(c, at) == pc[c] = at /\ pc'[c] = "idle" /\ result'[c].outcome = "ok"

\* ---------------------------------------------------------------- claims

\* C1: N >= 2 puts of new entities racing on one unique value: in every
\* interleaving at most one put has succeeded; once all have returned exactly
\* one has succeeded and every other failed with UniquePropertyException; and
\* whenever the unique key holds an id, it is the id bound to that one winner.
C1_ExactlyOneInsertWins ==
    /\ Cardinality({c \in Clients : Succeeded(c, "insert")}) <= 1
    /\ (\A c \in Clients : pc[c] = "idle" /\ result[c].op = "insert")
          => \E w \in Clients :
                /\ Succeeded(w, "insert")
                /\ \A c \in Clients \ {w} : Violation(c) /\ obj[c].id = NoId
    /\ \A k \in PropKeys :
          db.props[k] # NoId
             => \E w \in Clients : Succeeded(w, "insert") /\ obj[w].id = db.props[k]

\* a race that was decided at the commit: the loser had passed both checks,
\* met a WatchError and failed on the retry
C1_Witness ==
    \E w, l \in Clients :
        /\ Succeeded(w, "insert")
        /\ Violation(l) /\ result[l].watches = 2
        /\ \A c \in Clients : pc[c] = "idle" /\ result[c].op = "insert"

\* C2: in every reachable store state no two stored entities have the same
\* value of the unique property.
C2_Uniqueness ==
    \A i, j \in Ids :
        (i # j /\ Stored(i) /\ Stored(j)) => StoredEmail(i) # StoredEmail(j)

\* C3: after every successful insert and every successful update the reverse
\* key set of the entity is exactly the set of unique keys of its stored
\* values.
C3_RksIsCurrentKeys ==
    [][\A c \in Clients :
          (Commits(c, "ins_execute") \/ Commits(c, "upd_execute"))
             => db'.rks[loc[c].model_id]
                   = unique_prop_keys(get(db', loc[c].model_id))]_vars

\* C4: a unique key exists iff a stored entity has that value, and it holds
\* that entity's id; every stored entity's unique key holds its id.
C4_KeysMatchEntities ==
    /\ \A v \in Emails :
          db.props[EmailKey(v)] # NoId
             => /\ Stored(db.props[EmailKey(v)])
                /\ StoredEmail(db.props[EmailKey(v)]) = v
    /\ \A i \in Ids :
          Stored(i) => db.props[EmailKey(StoredEmail(i))] = i

C6_PrecheckConsumesNoId ==
    \A c \in Clients :
        (Violation(c) /\ result[c].op = "insert" /\ result[c].watches = 0)
           => db.mid = result[c].mid0

\* C6 (amended): an insert that fails in the fast-path precheck opened no
\* transaction (no WATCH was sent, nothing is watched), but it had already
\* allocated its id: the call incremented the counter once, before the
\* precheck, and the counter stays above the value it had when the call began.
C6_PrecheckAfterAllocation ==
    [][\A c \in Clients :
          /\ (pc[c] = "idle" /\ pc'[c] = "ins_precheck")
                => db'.mid = db.mid + 1 /\ loc'[c].model_id = db'.mid
          /\ (pc[c] = "ins_precheck" /\ pc'[c] = "idle")
                => /\ result'[c].outcome = "UniquePropertyException"
                   /\ result'[c].watches = 0 /\ watching[c] = {}
                   /\ result'[c].allocs = 1
                   /\ db'.mid = db.mid
                   /\ db.mid >= loc[c].model_id
                   /\ loc[c].model_id > result[c].mid0]_vars

C6_Witness ==
    \E c \in Clients :
        /\ Violation(c) /\ result[c].op = "insert" /\ result[c].watches = 0
        /\ db.mid > result[c].mid0

\* C7: a successful update of a stored entity that changes its unique
\* property from v1 to v2 removes the key of v1 and sets the key of v2 to the
\* entity's id in the one commit: get(F=v1) is None, get(F=v2) is the id.
C7_UpdateMovesKey ==
    [][\A c \in Clients :
          ( /\ Commits(c, "upd_execute")
            /\ Stored(loc[c].model_id)
            /\ StoredEmail(loc[c].model_id) # obj[c].email )
             => /\ get_model_id(db', "email", StoredEmail(loc[c].model_id)) = NoId
                /\ get_model_id(db', "email", obj[c].email) = loc[c].model_id
                /\ get(db', loc[c].model_id).email = obj[c].email]_vars

\* an update has changed the unique property: the entity was inserted with
\* another value than the one it is stored with
C7_Witness ==
    \E c \in Clients :
        /\ Succeeded(c, "update")
        /\ Stored(obj[c].id)
        /\ StoredEmail(obj[c].id) = obj[c].email
        /\ db.props[EmailKey(obj[c].email)] = obj[c].id
        /\ \E v \in Emails \ {obj[c].email} :
              EmailKey(v) \in db.rks[obj[c].id] /\ db.props[EmailKey(v)] = NoId

\* C8: a successful delete of entity i removes, in its one commit, the data
\* key, the reverse key set and every key that was a member of it; get(i) is
\* None afterwards and the object's id is unset.
C8_DeleteRemovesAll ==
    [][\A c \in Clients :
          Commits(c, "del_execute")
             => /\ db.rks[loc[c].model_id] # {}
                /\ ~KeyExists(db', DataKey(loc[c].model_id))
                /\ ~KeyExists(db', RksKey(loc[c].model_id))
                /\ \A k \in db.rks[loc[c].model_id] : ~KeyExists(db', k)
                /\ obj'[c].id = NoId]_vars

C8_Witness ==
    \E c \in Clients :
        /\ Succeeded(c, "delete")
        /\ obj[c].id = NoId
        /\ inserted # {}
        /\ \A i \in inserted : ~Stored(i) /\ db.rks[i] = {}
        /\ \A k \in PropKeys : db.props[k] = NoId

\* C9: a successful put() followed at once by get(id), with the id the put
\* bound, gives an object with the same id whose attribute map equals the
\* map extracted at the put.
C9_PutGetRoundTrip ==
    [][\A c \in Clients :
          (Commits(c, "ins_execute") \/ Commits(c, "upd_execute"))
             => /\ db'.data[obj'[c].id] # NoData
                /\ get(db', obj'[c].id).id = obj'[c].id
                /\ static_props(get(db', obj'[c].id)) = static_props(obj[c])]_vars

\* a get(id) that followed a successful put of another client's object
C9_Witness ==
    \E c, d \in Clients :
        /\ c # d
        /\ Succeeded(c, "update")
        /\ pc[d] = "idle" /\ result[d].op = "get" /\ result[d].outcome = "ok"
        /\ obj[d] = obj[c]
        /\ Stored(obj[c].id)

\* C10: the counter never decreases, every allocation returns a value above
\* every value returned before, and no successful insert is bound to an id
\* that an earlier successful insert was bound to.
C10_IdsNeverReused ==
    [][/\ db'.mid >= db.mid
       /\ \A c \in Clients :
             /\ (pc[c] = "idle" /\ pc'[c] = "ins_precheck")
                   => /\ loc'[c].model_id > db.mid
                      /\ \A d \in Clients : loc'[c].model_id > loc[d].model_id
                      /\ \A i \in inserted : loc'[c].model_id > i
             /\ Commits(c, "ins_execute")
                   => /\ obj'[c].id \notin inserted
                      /\ ~Stored(obj'[c].id)
                      /\ \A d \in Clients \ {c} : obj[d].id # obj'[c].id]_vars

\* an entity was inserted again after its delete, under a new id
C10_Witness ==
    \E c \in Clients :
        /\ Succeeded(c, "insert")
        /\ Cardinality(inserted) >= 2
        /\ \E i \in inserted : i < obj[c].id /\ ~Stored(i)

\* C11: delete() on an object whose id is unset raises the RuntimeError of an
\* unsaved object, sends no command to the store (no WATCH, no read, no
\* write, no commit) and leaves the store and the object as they were.
C11_DeleteUnsaved ==
    [][\A c \in Clients :
          (Delete(c) /\ obj[c].id = NoId)
             => /\ result'[c].outcome = "RuntimeError_unsaved"
                /\ result'[c].watches = 0 /\ result'[c].allocs = 0
                /\ pc'[c] = "idle"
                /\ db' = db /\ watching' = watching /\ dirty' = dirty
                /\ obj' = obj /\ loc' = loc]_vars

\* the failed delete found a store with entities in it
C11_Witness ==
    \E c \in Clients :
        /\ pc[c] = "idle" /\ result[c].op = "delete"
        /\ result[c].outcome = "RuntimeError_unsaved"
        /\ obj[c].id = NoId
        /\ \E i \in Ids : Stored(i)

\* C12: get(name=value) raises whenever name is not a declared unique
\* property; only for a declared unique property is the key read.
C12_OnlyUniqueFilter ==
    \A c \in Clients :
        ( /\ result[c].op = "get"
          /\ result[c].prop # None
          /\ ~(result[c].prop \in PropNames /\ unique(result[c].prop)) )
           => result[c].outcome = "RuntimeError_not_unique"

\* C13: put() and delete() never end in a commit conflict: a WatchError is
\* caught and the call goes back to its WATCH; a call ends only in success,
\* ValueError, UniquePropertyException, the RuntimeError of an unsaved object
\* or the RuntimeError of the debug-mode delete.
C13_OnlyListedOutcomes ==
    \A c \in Clients :
        result[c].op \in {"insert", "update", "delete"}
           => result[c].outcome \in
                 {"running", "ok", "ValueError", "UniquePropertyException",
                  "RuntimeError_unsaved", "RuntimeError_delete_failed"}

\* C14: a put() that fails validation (a unique property is None) and an
\* update that finds one of its new unique keys taken change nothing in the
\* store: the failing step and every step of the update before it leave the
\* data keys, unique keys, reverse key sets and the counter as they were, so
\* the stored entity keeps its old values.
C14_FailedPutLeavesStore ==
    [][\A c \in Clients :
          /\ (\E n \in Nicknames : PutInsert(c, None, n) \/ PutUpdate(c, None, n))
                => /\ result'[c].outcome = "ValueError"
                   /\ pc'[c] = "idle"
                   /\ db' = db
          /\ ( /\ pc[c] = "upd_check"
               /\ Steps(c)
               /\ \E k \in unique_prop_keys(obj[c]) \ loc[c].rks : db.props[k] # NoId )
                => /\ result'[c].outcome = "UniquePropertyException"
                   /\ pc'[c] = "idle"
                   /\ db' = db
          /\ ( /\ pc[c] \in {"upd_watch", "upd_smembers", "upd_check"}
               /\ Steps(c) )
                => db' = db]_vars

\* an update has failed on a taken key while the entity it was to change is
\* stored with another email than the one the update asked for
C14_Witness ==
    \E c \in Clients :
        /\ Violation(c)
        /\ result[c].op = "update"
        /\ obj[c].id # NoId
        /\ Stored(obj[c].id)
        /\ StoredEmail(obj[c].id) # obj[c].email
        /\ db.props[EmailKey(obj[c].email)] \notin {NoId, obj[c].id}

\* C15: the commit of an update or a delete of entity i deletes or overwrites
\* only unique keys that map to i: a unique key that maps to another entity's
\* id when the commit is applied keeps its value.
C15_OnlyOwnKeys ==
    [][\A c \in Clients :
          ( /\ pc[c] \in {"upd_execute", "del_execute"}
            /\ Steps(c) )
             => \A k \in PropKeys :
                   db.props[k] \notin {NoId, loc[c].model_id}
                      => db'.props[k] = db.props[k]]_vars

\* C17 (as claimed): the id is allocated inside the retry loop, once per
\* attempt: a successful insert has incremented the counter as many times as
\* it has sent WATCH (its conflicts plus one), and an insert that failed the
\* re-check under its first WATCH has allocated no id.
C17_AllocatesPerAttempt ==
    \A c \in Clients :
        /\ Succeeded(c, "insert") => result[c].allocs = result[c].watches
        /\ (Violation(c) /\ result[c].op = "insert" /\ result[c].watches = 1)
              => result[c].allocs = 0

\* C17 (amended): the id is allocated once per call, before the precheck and
\* outside the retry loop: the step that starts the insert increments the
\* counter by one and keeps the new value as the call's id; no later step of
\* the call (precheck, WATCH, re-check, commit, conflict) changes the counter
\* or the call's id, however many times the commit conflicts; the commit binds
\* that id; and an insert that fails the re-check has consumed an id.
C17_AllocatesOncePerCall ==
    [][\A c \in Clients :
          /\ (pc[c] = "idle" /\ pc'[c] = "ins_precheck")
                => /\ db'.mid = db.mid + 1
                   /\ loc'[c].model_id = db.mid + 1
          /\ (pc[c] \in {"ins_precheck", "ins_watch", "ins_recheck", "ins_execute"}
                /\ Steps(c))
                => /\ db'.mid = db.mid
                   /\ pc'[c] # "idle" => loc'[c].model_id = loc[c].model_id
                   /\ loc[c].model_id = result[c].mid0 + 1
          /\ Commits(c, "ins_execute")
                => obj'[c].id = result[c].mid0 + 1
          /\ (pc[c] = "ins_recheck" /\ pc'[c] = "idle")
                => /\ result'[c].outcome = "UniquePropertyException"
                   /\ db.mid > result[c].mid0]_vars

\* an insert has succeeded after a conflict (two WATCHes) with the id the
\* counter gave when the call began
C17_Witness ==
    \E c \in Clients :
        /\ Succeeded(c, "insert")
        /\ result[c].watches >= 2
        /\ obj[c].id = result[c].mid0 + 1

\* C19: in debug mode a committed delete() fails with the RuntimeError of a
\* failed delete if and only if at least one of the keys it deleted (a member
\* of the reverse key set it read, the data key, the reverse key set key) did
\* not exist when the commit was applied; outside debug mode a committed
\* delete() succeeds.
C19_EveryDeletionVerified ==
    [][\A c \in Clients :
          ( /\ pc[c] = "del_execute"
            /\ pc'[c] = "idle"
            /\ result'[c].outcome # "ResponseError" )
             => LET i == loc[c].model_id
                    missing == {k \in loc[c].rks \cup {DataKey(i), RksKey(i)} :
                                   ~KeyExists(db, k)}
                IN  IF debug_mode
                    THEN result'[c].outcome = "RuntimeError_delete_failed"
                            <=> missing # {}
                    ELSE result'[c].outcome = "ok"]_vars

\* C20: the id of a local object changes only when its insert commits (from
\* unset to the id of the call) and when its delete commits successfully (to
\* unset); otherwise only by replacing the object (a new object, a loaded
\* one).  It is unset through every step of an insert that does not commit,
\* and no step of an update changes the id or the counter.
C20_IdLifecycle ==
    [][\A c \in Clients :
          /\ obj'[c].id # obj[c].id
                => \/ /\ Commits(c, "ins_execute")
                      /\ obj[c].id = NoId
                      /\ obj'[c].id = loc[c].model_id
                   \/ /\ Commits(c, "del_execute")
                      /\ obj'[c].id = NoId
                   \/ New(c)
                   \/ \E i \in Ids : Get(c, i)
                   \/ GetData(c)
          /\ Commits(c, "ins_execute") => obj'[c].id # NoId
          /\ Commits(c, "del_execute") => obj'[c].id = NoId
          /\ ( /\ pc[c] \in {"ins_precheck", "ins_watch", "ins_recheck", "ins_execute"}
               /\ Steps(c)
               /\ ~Commits(c, "ins_execute") )
                => obj[c].id = NoId /\ obj'[c].id = NoId
          /\ ( \/ pc[c] = "idle" /\ pc'[c] = "upd_watch"
               \/ /\ pc[c] \in {"upd_watch", "upd_smembers", "upd_check", "upd_execute"}
                  /\ Steps(c) )
                => /\ obj'[c].id = obj[c].id
                   /\ obj[c].id # NoId
                   /\ db'.mid = db.mid]_vars

\* a delete has succeeded after a conflict and cleared the id, while the
\* update that conflicted with it has succeeded and kept its object's id
C20_Witness ==
    \E c, d \in Clients :
        /\ Succeeded(c, "delete")
        /\ result[c].watches >= 2
        /\ obj[c].id = NoId
        /\ Succeeded(d, "update")
        /\ obj[d].id # NoId

\* C18: with the number of calls bounded and every client that is inside a
\* call scheduled fairly, every call returns: a put() or delete() that has
\* started is eventually back at its caller, with success or an error.
C18_EveryCallReturns ==
    \A c \in Clients : (pc[c] # "idle") ~> (pc[c] = "idle")

\* an update has returned after at least one commit conflict
C18_Witness ==
    \E c \in Clients :
        /\ pc[c] = "idle"
        /\ result[c].op = "update"
        /\ result[c].watches >= 2
        /\ result[c].outcome \in {"ok", "UniquePropertyException"}

\* C16: writers of different kinds (updates of different entities, inserts)
\* racing for one value v of the unique property.  In every state at most one
\* put has succeeded; once all have returned exactly one has succeeded and
\* every other failed with UniquePropertyException; the key of v maps to the
\* winner's id only.  A writer that reaches execute() after another writer
\* has claimed v gets the conflict and goes back to WATCH with the store
\* unchanged; a commit is applied only when what the call read under its
\* WATCH still holds: the key of v absent, and for an update the reverse key
\* set as it was read.
C16_FirstCommitterWins ==
    [][/\ Cardinality({c \in Clients : Won(c)'}) <= 1
       /\ (\A c \in Clients : pc'[c] = "idle" /\ result'[c].op \in {"insert", "update"})
             => \E w \in Clients :
                   /\ Won(w)'
                   /\ \A c \in Clients \ {w} : Violation(c)'
       /\ \A c \in Clients :
             /\ db'.props[EmailKey(obj[c].email)] # NoId
                   => \E w \in Clients :
                         Won(w)' /\ obj'[w].id = db'.props[EmailKey(obj[c].email)]
             /\ ( /\ pc[c] \in {"ins_execute", "upd_execute"}
                  /\ Steps(c)
                  /\ db.props[EmailKey(obj[c].email)] # NoId )
                   => /\ db' = db
                      /\ pc'[c] \in {"ins_watch", "upd_watch"}
             /\ (Commits(c, "ins_execute") \/ Commits(c, "upd_execute"))
                   => db.props[EmailKey(obj[c].email)] = NoId
             /\ Commits(c, "upd_execute")
                   => db.rks[loc[c].model_id] = loc[c].rks]_vars

\* a race between an update and an insert decided at the commit: the update
\* won, the insert had passed both checks, met the conflict and failed on the
\* retry
C16_Witness ==
    \E w, l \in Clients :
        /\ Succeeded(w, "update")
        /\ Violation(l) /\ result[l].op = "insert" /\ result[l].watches = 2
        /\ \A c \in Clients : pc[c] = "idle" /\ result[c].op \in {"insert", "update"}

====
